---- MODULE Spec2Model ----
(***************************************************************************)
(* Model of the workflow execution engine of subagent_orchestrator.py:     *)
(* generate_execution_plan, can_execute_step, execute_step and the two     *)
(* dispatch loops of execute_workflow (interactive loop, batch pass).      *)
(***************************************************************************)
EXTENDS Integers, Sequences, FiniteSets, TLC

VARIABLES
    workflows,    \* self.workflows: workflow id -> [name, steps]
    execution,    \* the WorkflowExecution built by execute_workflow
    interactive,  \* the interactive argument of execute_workflow
    pc,           \* position of the control flow inside execute_workflow
    next_step,    \* index in execution.steps of the step being executed, 0 if none
    idx,          \* position of the batch pass `for step in execution.steps`
    now,          \* value the next datetime.now() call returns
    deadlock,     \* history: the deadlock branch (lines 218-221) was taken
    dispatched,   \* history: indices of the steps handed to execute_step, in order
    requested,    \* the workflow_id argument of the call
    second_plan   \* the execution a later generate_execution_plan call returned

vars == <<workflows, execution, interactive, pc, next_step, idx, now, deadlock, dispatched,
          requested, second_plan>>

----------------------------------------------------------------------------
(* Bounds and input sets *)

MaxSteps == 3

StepNames == {"a", "b", "c"}

\* the names a depends_on may hold; "x" is a name no step of any workflow declares
DepNames == {"a", "b", "x"}

\* the depends_on lists a step spec may carry: none, one name, or the pair a, b
DependsOnLists == {{}} \cup {{d} : d \in DepNames} \cup {{"a", "b"}}

CatalogIds == {"wf"}

WorkflowIds == CatalogIds \cup {"missing"}

NoTime == 0

\* timeout=step_config.get('timeout', 600)
DefaultTimeout == 600

None == "None"

StepConfigs == [step : StepNames, depends_on : DependsOnLists]

\* step specs with the optional keys present or absent
OptionalDependsOn == {{}, {"a"}, {"a", "b"}}

OptionalTimeouts == {30}

OptionalStepConfigs ==
    [step : StepNames]
    \cup [step : StepNames, depends_on : OptionalDependsOn]
    \cup [step : StepNames, timeout : OptionalTimeouts]
    \cup [step : StepNames, depends_on : OptionalDependsOn, timeout : OptionalTimeouts]

OptionalWorkflowConfigs ==
    UNION {[name : {"Workflow"}, steps : [1..n -> OptionalStepConfigs]] : n \in 0..MaxSteps}

WorkflowConfigs ==
    UNION {[name : {"Workflow"}, steps : [1..n -> StepConfigs]] : n \in 0..MaxSteps}

----------------------------------------------------------------------------
(* Data model *)

\* @dataclass WorkflowStep: the defaults of the runtime fields
WorkflowStep(step, timeout, depends_on) ==
    [step |-> step, timeout |-> timeout, depends_on |-> depends_on, status |-> "pending",
     start_time |-> NoTime, end_time |-> NoTime, result |-> None, error |-> None]

\* @dataclass WorkflowExecution: the defaults of the runtime fields
WorkflowExecution(workflow_id, name, steps, total_steps) ==
    [workflow_id |-> workflow_id, name |-> name, status |-> "pending",
     steps |-> steps, start_time |-> NoTime, end_time |-> NoTime,
     total_steps |-> total_steps, completed_steps |-> 0, failed_steps |-> 0]

\* the local `execution` before generate_execution_plan has returned
NoExecution == WorkflowExecution("", "", <<>>, 0)

----------------------------------------------------------------------------
(* generate_execution_plan *)

\* dict.get(key, default)
Get(config, key, default) == IF key \in DOMAIN config THEN config[key] ELSE default

\* mutant: a workflow without steps counts as absent
HasWorkflow_with_steps(wfs, workflow_id) ==
    workflow_id \in DOMAIN wfs /\ Len(wfs[workflow_id].steps) > 0

\* line 114: workflow_id in self.workflows
HasWorkflow(wfs, workflow_id) == workflow_id \in DOMAIN wfs

\* mutant: a spec without timeout gets 60 seconds
StepFromConfig_short_timeout(step_config) ==
    WorkflowStep(step_config.step,
                 Get(step_config, "timeout", 60),
                 Get(step_config, "depends_on", {}))

\* lines 121-128
StepFromConfig(step_config) ==
    WorkflowStep(step_config.step,
                 Get(step_config, "timeout", DefaultTimeout),
                 Get(step_config, "depends_on", {}))

\* mutant: total_steps counts the distinct step names
generate_execution_plan_distinct_names(wfs, workflow_id) ==
    LET workflow == wfs[workflow_id]
        steps == [i \in 1..Len(workflow.steps) |-> StepFromConfig(workflow.steps[i])]
    IN  WorkflowExecution(workflow_id, workflow.name, steps,
                          Cardinality({steps[i].step : i \in 1..Len(steps)}))

generate_execution_plan(wfs, workflow_id) ==
    LET workflow == wfs[workflow_id]
        steps == [i \in 1..Len(workflow.steps) |-> StepFromConfig(workflow.steps[i])]
    IN  WorkflowExecution(workflow_id, workflow.name, steps, Len(steps))

----------------------------------------------------------------------------
(* can_execute_step *)

\* next((s for s in execution.steps if s.step == dependency), None):
\* the index of the first step with that name, 0 standing for None
RECURSIVE FirstNamed(_, _, _)
FirstNamed(steps, dependency, i) ==
    IF i > Len(steps) THEN 0
    ELSE IF steps[i].step = dependency THEN i
    ELSE FirstNamed(steps, dependency, i + 1)

dependent_step(exec, dependency) == FirstNamed(exec.steps, dependency, 1)

\* mutant: a dependency that has finished, even failed, counts as satisfied
can_execute_step_finished(step, exec) ==
    IF step.depends_on = {} THEN TRUE
    ELSE \A dependency \in step.depends_on :
            LET d == dependent_step(exec, dependency)
            IN  ~(d = 0 \/ exec.steps[d].status \notin {"completed", "failed"})

\* mutant: only a dependency declared before the step can satisfy it
can_execute_step_declared_earlier(step, exec) ==
    IF step.depends_on = {} THEN TRUE
    ELSE \A dependency \in step.depends_on :
            LET d == dependent_step(exec, dependency)
            IN  ~(d = 0 \/ exec.steps[d].status # "completed"
                        \/ d > dependent_step(exec, step.step))

\* mutant: one completed dependency is enough
can_execute_step_any_dependency(step, exec) ==
    IF step.depends_on = {} THEN TRUE
    ELSE \E dependency \in step.depends_on :
            LET d == dependent_step(exec, dependency)
            IN  ~(d = 0 \/ exec.steps[d].status # "completed")

\* mutant: a dependency that names no step is passed over
can_execute_step_missing_ok(step, exec) ==
    IF step.depends_on = {} THEN TRUE
    ELSE \A dependency \in step.depends_on :
            LET d == dependent_step(exec, dependency)
            IN  ~(d # 0 /\ exec.steps[d].status # "completed")

can_execute_step(step, exec) ==
    IF step.depends_on = {} THEN TRUE
    ELSE \A dependency \in step.depends_on :
            LET d == dependent_step(exec, dependency)
            IN  ~(d = 0 \/ exec.steps[d].status # "completed")

----------------------------------------------------------------------------
(* execute_step *)

\* lines 154-155
StepRunning(step, t) == [step EXCEPT !.status = "running", !.start_time = t]

\* mutant: a completed step drops the dependencies it no longer waits for
StepCompleted_drops_dependencies(step, t) ==
    [step EXCEPT !.status = "completed", !.end_time = t, !.result = "Successfully completed",
                 !.depends_on = {}]

\* lines 171-173
StepCompleted(step, t) ==
    [step EXCEPT !.status = "completed", !.end_time = t, !.result = "Successfully completed"]

\* mutant: a failed step is put back to pending to be tried again
StepFailed_retry(step, t) ==
    [step EXCEPT !.status = "pending", !.end_time = t, !.error = "exception"]

\* lines 179-181
StepFailed(step, t) ==
    [step EXCEPT !.status = "failed", !.end_time = t, !.error = "exception"]

----------------------------------------------------------------------------
(* execute_workflow *)

\* lines 209-213: the first pending step that can execute, 0 for None
RECURSIVE FirstReady(_, _)
FirstReady(exec, i) ==
    IF i > Len(exec.steps) THEN 0
    ELSE IF exec.steps[i].status = "pending" /\ can_execute_step(exec.steps[i], exec) THEN i
    ELSE FirstReady(exec, i + 1)

\* mutant: the scan does not look at the status of the step
RECURSIVE FirstExecutable(_, _)
FirstExecutable(exec, i) ==
    IF i > Len(exec.steps) THEN 0
    ELSE IF can_execute_step(exec.steps[i], exec) THEN i
    ELSE FirstExecutable(exec, i + 1)

FindNextStep_any_status(exec) == FirstExecutable(exec, 1)

\* mutant: the scan keeps the last pending step that can execute
FindNextStep_last_ready(exec) ==
    LET ready == {i \in 1..Len(exec.steps) :
                     exec.steps[i].status = "pending" /\ can_execute_step(exec.steps[i], exec)}
    IN  IF ready = {} THEN 0 ELSE CHOOSE i \in ready : \A j \in ready : j <= i

\* mutant: only the first pending step is tried
FindNextStep_first_pending(exec) ==
    LET pending == {i \in 1..Len(exec.steps) : exec.steps[i].status = "pending"}
        first == IF pending = {} THEN 0 ELSE CHOOSE i \in pending : \A j \in pending : i <= j
    IN  IF first # 0 /\ can_execute_step(exec.steps[first], exec) THEN first ELSE 0

FindNextStep(exec) == FirstReady(exec, 1)

\* line 217
pending_steps(exec) == {i \in 1..Len(exec.steps) : exec.steps[i].status = "pending"}

\* mutant: the loop also ends as soon as a step has failed
LoopCondition_stop_on_failure(exec) ==
    /\ exec.failed_steps = 0
    /\ exec.completed_steps + exec.failed_steps < exec.total_steps

\* line 207
LoopCondition(exec) == exec.completed_steps + exec.failed_steps < exec.total_steps

\* mutant: the deadlock branch marks the steps it leaves behind as failed
DeadlockExecution_fail_pending(exec) ==
    [exec EXCEPT !.status = "failed",
                 !.steps = [i \in 1..Len(exec.steps) |->
                               IF exec.steps[i].status = "pending"
                               THEN [exec.steps[i] EXCEPT !.status = "failed"]
                               ELSE exec.steps[i]],
                 !.failed_steps = @ + Cardinality(pending_steps(exec))]

\* line 220
DeadlockExecution(exec) == [exec EXCEPT !.status = "failed"]

\* execute_step returned True: lines 171-176, then 229-230 (batch: 241-242)
RecordSuccess(exec, i, t) ==
    [exec EXCEPT !.steps[i] = StepCompleted(exec.steps[i], t), !.completed_steps = @ + 1]

\* mutant: a step that failed is put back to pending and not counted
RecordFailure_try_again(exec, i, t) ==
    [exec EXCEPT !.steps[i] = [StepFailed(exec.steps[i], t) EXCEPT !.status = "pending"]]

\* execute_step returned False: lines 178-183, then 231-232 (batch: 243-244)
RecordFailure(exec, i, t) ==
    [exec EXCEPT !.steps[i] = StepFailed(exec.steps[i], t), !.failed_steps = @ + 1]

\* mutant: an execution with a step left unfinished is failed
FinalStatus_incomplete_fails(exec) ==
    IF exec.failed_steps = 0 /\ exec.completed_steps = exec.total_steps
    THEN "completed" ELSE "failed"

\* mutant: the execution fails only when nothing completed
FinalStatus_any_completed(exec) ==
    IF exec.failed_steps = 0 \/ exec.completed_steps > 0 THEN "completed" ELSE "failed"

\* lines 248-257
FinalStatus(exec) == IF exec.failed_steps = 0 THEN "completed" ELSE "failed"

----------------------------------------------------------------------------
(* execute_workflow as a function of the catalog, the mode and the outcome
   ok[i] the executor has for step i, built from the same statements *)

\* execute_step on step i with the first clock value t, and the counter update
ExecuteStep(exec, i, success, t) ==
    LET running == [exec EXCEPT !.steps[i] = StepRunning(exec.steps[i], t)]
    IN  IF success THEN RecordSuccess(running, i, t + 1) ELSE RecordFailure(running, i, t + 1)

\* lines 207-234
RECURSIVE RunLoop(_, _, _, _)
RunLoop(exec, ok, t, order) ==
    IF ~LoopCondition(exec) THEN [execution |-> exec, now |-> t, dispatched |-> order]
    ELSE LET n == FindNextStep(exec)
         IN  IF n = 0
             THEN [execution |-> IF pending_steps(exec) # {}
                                 THEN DeadlockExecution(exec) ELSE exec,
                   now |-> t, dispatched |-> order]
             ELSE RunLoop(ExecuteStep(exec, n, ok[n], t), ok, t + 2, Append(order, n))

\* lines 238-244
RECURSIVE RunPass(_, _, _, _, _)
RunPass(exec, ok, i, t, order) ==
    IF i > Len(exec.steps) THEN [execution |-> exec, now |-> t, dispatched |-> order]
    ELSE IF can_execute_step(exec.steps[i], exec)
    THEN RunPass(ExecuteStep(exec, i, ok[i], t), ok, i + 1, t + 2, Append(order, i))
    ELSE RunPass(exec, ok, i + 1, t, order)

\* lines 187-265
execute_workflow(wfs, workflow_id, inter, ok) ==
    LET plan == generate_execution_plan(wfs, workflow_id)
        started == [plan EXCEPT !.status = "running", !.start_time = 1]
        ran == IF inter THEN RunLoop(started, ok, 2, <<>>) ELSE RunPass(started, ok, 1, 2, <<>>)
    IN  [execution |-> [ran.execution EXCEPT !.end_time = ran.now,
                                             !.status = FinalStatus(ran.execution)],
         dispatched |-> ran.dispatched]

----------------------------------------------------------------------------
(* execute_workflow step by step *)

Init ==
    /\ workflows \in [CatalogIds -> WorkflowConfigs]
    /\ execution = NoExecution
    /\ interactive = TRUE
    /\ pc = "call"
    /\ next_step = 0
    /\ idx = 1
    /\ now = 1
    /\ deadlock = FALSE
    /\ dispatched = <<>>
    /\ requested = ""
    /\ second_plan = NoExecution

\* line 114-115: unknown workflow id, ValueError propagates out of execute_workflow
PlanNotFound(workflow_id, inter) ==
    /\ pc = "call"
    /\ ~HasWorkflow(workflows, workflow_id)
    /\ interactive' = inter
    /\ requested' = workflow_id
    /\ pc' = "raised"
    /\ UNCHANGED <<workflows, execution, next_step, idx, now, deadlock, dispatched, second_plan>>

\* line 187
Plan(workflow_id, inter) ==
    /\ pc = "call"
    /\ HasWorkflow(workflows, workflow_id)
    /\ execution' = generate_execution_plan(workflows, workflow_id)
    /\ interactive' = inter
    /\ requested' = workflow_id
    /\ pc' = "planned"
    /\ UNCHANGED <<workflows, next_step, idx, now, deadlock, dispatched, second_plan>>

\* lines 188-197
Start ==
    /\ pc = "planned"
    /\ execution' = [execution EXCEPT !.status = "running", !.start_time = now]
    /\ now' = now + 1
    /\ pc' = IF interactive THEN "loop" ELSE "batch"
    /\ UNCHANGED <<workflows, interactive, next_step, idx, deadlock, dispatched, requested, second_plan>>

\* execute_step up to the executor call, lines 154-155
Dispatch(i) ==
    /\ execution' = [execution EXCEPT !.steps[i] = StepRunning(execution.steps[i], now)]
    /\ now' = now + 1
    /\ next_step' = i
    /\ dispatched' = Append(dispatched, i)
    /\ pc' = "executing"

\* line 207 false: the while loop ends
LoopExit ==
    /\ pc = "loop"
    /\ ~LoopCondition(execution)
    /\ pc' = "complete"
    /\ UNCHANGED <<workflows, execution, interactive, next_step, idx, now, deadlock, dispatched, requested, second_plan>>

\* lines 207-213, 225-227: a step is found and handed to execute_step
LoopDispatch ==
    /\ pc = "loop"
    /\ LoopCondition(execution)
    /\ FindNextStep(execution) # 0
    /\ Dispatch(FindNextStep(execution))
    /\ UNCHANGED <<workflows, interactive, idx, deadlock, requested, second_plan>>

\* lines 215-223: no step found
LoopNoStep ==
    /\ pc = "loop"
    /\ LoopCondition(execution)
    /\ FindNextStep(execution) = 0
    /\ IF pending_steps(execution) # {}
       THEN /\ execution' = DeadlockExecution(execution)
            /\ deadlock' = TRUE
       ELSE UNCHANGED <<execution, deadlock>>
    /\ pc' = "complete"
    /\ UNCHANGED <<workflows, interactive, next_step, idx, now, dispatched, requested, second_plan>>

\* lines 238-240: the step visited can execute
BatchDispatch ==
    /\ pc = "batch"
    /\ idx <= Len(execution.steps)
    /\ can_execute_step(execution.steps[idx], execution)
    /\ Dispatch(idx)
    /\ UNCHANGED <<workflows, interactive, idx, deadlock, requested, second_plan>>

\* mutant: the pass gives up at the first step that cannot execute
BatchSkip_ends_pass ==
    /\ pc = "batch"
    /\ idx <= Len(execution.steps)
    /\ ~can_execute_step(execution.steps[idx], execution)
    /\ idx' = Len(execution.steps) + 1
    /\ UNCHANGED <<workflows, execution, interactive, pc, next_step, now, deadlock, dispatched, requested, second_plan>>

\* lines 238-239: the step visited cannot execute, the pass moves on
BatchSkip ==
    /\ pc = "batch"
    /\ idx <= Len(execution.steps)
    /\ ~can_execute_step(execution.steps[idx], execution)
    /\ idx' = idx + 1
    /\ UNCHANGED <<workflows, execution, interactive, pc, next_step, now, deadlock, dispatched, requested, second_plan>>

\* line 238: the for loop is exhausted
BatchEnd ==
    /\ pc = "batch"
    /\ idx > Len(execution.steps)
    /\ pc' = "complete"
    /\ UNCHANGED <<workflows, execution, interactive, next_step, idx, now, deadlock, dispatched, requested, second_plan>>

\* where control goes after execute_step returns
AfterStep ==
    /\ pc' = IF interactive THEN "loop" ELSE "batch"
    /\ idx' = IF interactive THEN idx ELSE idx + 1
    /\ next_step' = 0
    /\ now' = now + 1

\* lines 171-176 and 229-230 / 241-242
StepSucceeds ==
    /\ pc = "executing"
    /\ execution' = RecordSuccess(execution, next_step, now)
    /\ AfterStep
    /\ UNCHANGED <<workflows, interactive, deadlock, dispatched, requested, second_plan>>

\* lines 178-183 and 231-232 / 243-244
StepFails ==
    /\ pc = "executing"
    /\ execution' = RecordFailure(execution, next_step, now)
    /\ AfterStep
    /\ UNCHANGED <<workflows, interactive, deadlock, dispatched, requested, second_plan>>

\* lines 246-265
Complete ==
    /\ pc = "complete"
    /\ execution' = [execution EXCEPT !.end_time = now, !.status = FinalStatus(execution)]
    /\ now' = now + 1
    /\ pc' = "returned"
    /\ UNCHANGED <<workflows, interactive, next_step, idx, deadlock, dispatched, requested, second_plan>>

\* a further generate_execution_plan call for the same workflow, made after
\* execute_workflow has returned (the plan command, line 332)
BuildPlan ==
    /\ pc = "returned"
    /\ HasWorkflow(workflows, requested)
    /\ second_plan' = generate_execution_plan(workflows, requested)
    /\ pc' = "replanned"
    /\ UNCHANGED <<workflows, execution, interactive, next_step, idx, now, deadlock, dispatched,
                   requested>>

Next ==
    \/ \E w \in WorkflowIds, inter \in BOOLEAN : PlanNotFound(w, inter)
    \/ \E w \in WorkflowIds, inter \in BOOLEAN : Plan(w, inter)
    \/ Start
    \/ LoopExit
    \/ LoopDispatch
    \/ LoopNoStep
    \/ BatchDispatch
    \/ BatchSkip
    \/ BatchEnd
    \/ StepSucceeds
    \/ StepFails
    \/ Complete
    \/ BuildPlan

Spec == Init /\ [][Next]_vars

\* calls of execute_workflow up to the return of generate_execution_plan, on
\* catalogs whose step specs carry or omit the optional keys
OptionalInit ==
    /\ workflows \in [CatalogIds -> OptionalWorkflowConfigs]
    /\ execution = NoExecution
    /\ interactive = TRUE
    /\ pc = "call"
    /\ next_step = 0
    /\ idx = 1
    /\ now = 1
    /\ deadlock = FALSE
    /\ dispatched = <<>>
    /\ requested = ""
    /\ second_plan = NoExecution

PlanNext ==
    \/ \E w \in WorkflowIds, inter \in BOOLEAN : PlanNotFound(w, inter)
    \/ \E w \in WorkflowIds, inter \in BOOLEAN : Plan(w, inter)

PlanSpec == OptionalInit /\ [][PlanNext]_vars

\* execute_workflow(workflow_id, interactive=True) alone; the code is
\* sequential, so every statement is eventually executed, given that each
\* executor call returns
InteractiveNext ==
    \/ \E w \in WorkflowIds : Plan(w, TRUE)
    \/ Start
    \/ LoopExit
    \/ LoopDispatch
    \/ LoopNoStep
    \/ StepSucceeds
    \/ StepFails
    \/ Complete

FairInteractiveSpec == Init /\ [][InteractiveNext]_vars /\ WF_vars(InteractiveNext)

----------------------------------------------------------------------------
(* Vocabulary of the properties *)

\* name d resolves to step j of exec: j is the first declared step of that name
ResolvesIn(exec, d, j) ==
    /\ j \in 1..Len(exec.steps)
    /\ exec.steps[j].step = d
    /\ \A k \in 1..(j - 1) : exec.steps[k].step # d

\* the steps step i of exec depends on directly
DependsOnIn(exec, i) ==
    {j \in 1..Len(exec.steps) : \E d \in exec.steps[i].depends_on : ResolvesIn(exec, d, j)}

RECURSIVE ReachableIn(_, _, _)
ReachableIn(exec, S, n) ==
    IF n = 0 THEN S
    ELSE ReachableIn(exec, S \cup UNION {DependsOnIn(exec, j) : j \in S}, n - 1)

\* some step depends on itself, directly or through other steps
HasCycleIn(exec) ==
    \E i \in 1..Len(exec.steps) :
        i \in ReachableIn(exec, DependsOnIn(exec, i), Len(exec.steps))

\* some depends_on holds a name no step declares
HasDanglingIn(exec) ==
    \E i \in 1..Len(exec.steps) : \E d \in exec.steps[i].depends_on :
        \A j \in 1..Len(exec.steps) : exec.steps[j].step # d

StepIds == 1..Len(execution.steps)

Returned == pc = "returned"

ResolvesTo(d, j) == ResolvesIn(execution, d, j)

DependsOn(i) == DependsOnIn(execution, i)

HasCycle == HasCycleIn(execution)

HasDangling == HasDanglingIn(execution)

\* readiness as the specification words it
Ready(i) ==
    \/ execution.steps[i].depends_on = {}
    \/ \A d \in execution.steps[i].depends_on :
          \E j \in StepIds : ResolvesTo(d, j) /\ execution.steps[j].status = "completed"

Pending == {i \in StepIds : execution.steps[i].status = "pending"}

UniqueNames ==
    \A i, j \in StepIds : execution.steps[i].step = execution.steps[j].step => i = j

----------------------------------------------------------------------------
(* Executions of the workflows the termination property is about *)

\* the catalog holds only workflows whose dependency graph is acyclic and
\* fully resolvable
AcyclicInit ==
    /\ Init
    /\ \A w \in DOMAIN workflows :
          LET plan == generate_execution_plan(workflows, w)
          IN  ~HasCycleIn(plan) /\ ~HasDanglingIn(plan)

\* the code is sequential: every statement of execute_workflow is eventually
\* executed, given that each executor call returns
FairAcyclicSpec == AcyclicInit /\ [][Next]_vars /\ WF_vars(Next)

----------------------------------------------------------------------------
(* C1 *)

\* C1: in both dispatch modes a step is set to running only at a moment when
\* every name of its depends_on resolves to a step of the same execution whose
\* status is completed, and the end_time of each such dependency is recorded
\* and earlier than the start_time the step receives.
C1_RunsOnlyAfterDependencies ==
    [][\A i \in StepIds :
          (execution.steps[i].status # "running" /\ execution'.steps[i].status = "running")
          => \A d \in execution.steps[i].depends_on :
                \E j \in StepIds :
                    /\ ResolvesTo(d, j)
                    /\ execution.steps[j].status = "completed"
                    /\ execution.steps[j].end_time # NoTime
                    /\ execution.steps[j].end_time < execution'.steps[i].start_time]_vars

\* a step that depends on both a and b is running in a batch pass
C1_Witness ==
    /\ ~interactive
    /\ \E i \in StepIds :
          /\ execution.steps[i].status = "running"
          /\ execution.steps[i].depends_on = {"a", "b"}

----------------------------------------------------------------------------
(* C2 *)

\* C2: when the dependency graph has a cycle or a dependency on an undeclared
\* name, the interactive execute_workflow returns an execution whose status is
\* failed with at least one step still pending, also when no step failed.
C2_DeadlockFailsTheExecution ==
    (Returned /\ interactive /\ (HasCycle \/ HasDangling))
    => (execution.status = "failed" /\ Pending # {})

----------------------------------------------------------------------------
(* C3 *)

Counted == execution.completed_steps + execution.failed_steps

\* C3 as stated: for an acyclic, fully resolvable workflow (step names unique,
\* as the data model requires) execute_workflow
\* returns with completed_steps + failed_steps = total_steps, whatever the
\* declaration order and the executor outcomes.
C3_CountersReachTotal ==
    (Returned /\ UniqueNames /\ ~HasCycle /\ ~HasDangling) => Counted = execution.total_steps

\* C3 as amended: for an acyclic, fully resolvable workflow execute_workflow
\* returns; at return completed_steps + failed_steps equals total_steps minus
\* the number of steps left pending; in interactive mode a step is left pending
\* only when a step it depends on failed or was left pending itself, so the sum
\* equals total_steps whenever no dispatched step failed.
C3_CountersReachTotalUnlessBlocked ==
    /\ (pc = "planned" /\ ~HasCycle /\ ~HasDangling) ~> Returned
    /\ [](Returned /\ ~HasCycle /\ ~HasDangling =>
            /\ Counted + Cardinality(Pending) = execution.total_steps
            /\ interactive =>
                  /\ \A i \in Pending : \E j \in DependsOn(i) :
                        execution.steps[j].status \in {"failed", "pending"}
                  /\ execution.failed_steps = 0 => Counted = execution.total_steps)

\* an interactive run of an acyclic workflow declared against its dependency
\* order returns with all three steps completed
C3_Witness ==
    /\ Returned /\ interactive /\ ~HasCycle /\ ~HasDangling /\ UniqueNames
    /\ execution.total_steps = 3
    /\ execution.completed_steps = 3
    /\ dispatched = <<3, 2, 1>>

----------------------------------------------------------------------------
(* C4 *)

\* C4: when execute_workflow returns, in either mode, failed_steps > 0 makes
\* the execution failed, and completed_steps = total_steps with no failed
\* step makes it completed.
C4_FinalStatusFollowsCounters ==
    Returned =>
        /\ execution.failed_steps > 0 => execution.status = "failed"
        /\ (execution.completed_steps = execution.total_steps /\ execution.failed_steps = 0)
              => execution.status = "completed"

\* two independent steps, one failed and one completed, the execution failed
C4_Witness ==
    /\ Returned
    /\ execution.total_steps = 2
    /\ execution.completed_steps = 1
    /\ execution.failed_steps = 1
    /\ \A i \in StepIds : execution.steps[i].depends_on = {}
    /\ execution.status = "failed"

----------------------------------------------------------------------------
(* C5 *)

\* C5: once execution.status is completed, failed or cancelled, no later
\* assignment of execute_workflow changes it to a different value.
C5_TerminalStatusIsFinal ==
    [][execution.status \in {"completed", "failed", "cancelled"}
          => execution'.status = execution.status]_vars

----------------------------------------------------------------------------
(* C6 *)

StepTransitions ==
    {<<"pending", "running">>, <<"running", "completed">>, <<"running", "failed">>,
     <<"pending", "skipped">>}

\* C6: every change of a step's status is one of pending -> running,
\* running -> completed, running -> failed, pending -> skipped; so no step
\* leaves completed, failed or skipped, none goes from pending to completed or
\* failed directly, and none returns to pending or running.
C6_StepStatusMovesForward ==
    [][\A i \in StepIds :
          /\ i <= Len(execution'.steps)
          /\ \/ execution'.steps[i].status = execution.steps[i].status
             \/ <<execution.steps[i].status, execution'.steps[i].status>> \in StepTransitions]_vars

\* an execution has returned with one step completed and another failed
C6_Witness ==
    /\ Returned
    /\ \E i, j \in StepIds :
          /\ execution.steps[i].status = "completed"
          /\ execution.steps[j].status = "failed"

----------------------------------------------------------------------------
(* C7 *)

\* C7: completed_steps + failed_steps <= total_steps in every state of an
\* execution, from the plan to the return, in both modes and for every
\* workflow, duplicate step names, cycles and dangling dependencies included.
C7_CountersBoundedByTotal == Counted <= execution.total_steps

\* a batch pass over three steps, two of them with the same name, has
\* dispatched and counted every step
C7_Witness ==
    /\ Returned /\ ~interactive /\ ~UniqueNames
    /\ execution.total_steps = 3
    /\ Counted = 3

----------------------------------------------------------------------------
(* C8 *)

WithStatus(status) == {i \in StepIds : execution.steps[i].status = status}

Untouched(i) ==
    /\ execution.steps[i].status = "pending"
    /\ execution.steps[i].start_time = NoTime
    /\ execution.steps[i].end_time = NoTime
    /\ execution.steps[i].result = None
    /\ execution.steps[i].error = None

\* C8: when execute_workflow returns, a step one of whose dependencies is not
\* completed (failed, left pending, on a cycle, or undeclared) was never
\* dispatched: it is pending with start_time, end_time, result and error null,
\* and the counters count only the steps whose status is completed or failed.
C8_BlockedStepsStayPending ==
    Returned =>
        /\ \A i \in StepIds :
              ~Ready(i) => (Untouched(i) /\ \A k \in 1..Len(dispatched) : dispatched[k] # i)
        /\ execution.completed_steps = Cardinality(WithStatus("completed"))
        /\ execution.failed_steps = Cardinality(WithStatus("failed"))

\* [a, b(depends_on=[a])] with a failing: a failed, b pending, counters 0 and 1
C8_Witness ==
    /\ Returned
    /\ execution.total_steps = 2
    /\ execution.steps[1].status = "failed"
    /\ execution.steps[2].depends_on = {execution.steps[1].step}
    /\ Untouched(2)
    /\ execution.failed_steps = 1
    /\ execution.completed_steps = 0

----------------------------------------------------------------------------
(* C9 *)

NoneReady == \A i \in Pending : ~Ready(i)

\* C9: the interactive loop takes the deadlock branch at a tick exactly when
\* some step is pending and no pending step is ready, and it stops dispatching
\* for no other reason: when execute_workflow(interactive=True) returns, every
\* step still pending has a dependency that is not completed, also after a
\* step failed.
C9_LoopStopsOnlyWhenNothingIsReady ==
    /\ [][(deadlock' # deadlock) <=> (pc = "loop" /\ Pending # {} /\ NoneReady)]_vars
    /\ []((Returned /\ interactive) => NoneReady)

\* after a step failed another step was dispatched and completed, and the
\* loop then ended in the deadlock branch with a step left pending
C9_Witness ==
    /\ Returned /\ interactive /\ deadlock /\ Pending # {}
    /\ \E i, j \in StepIds :
          /\ execution.steps[i].status = "failed"
          /\ execution.steps[j].status = "completed"
          /\ execution.steps[i].end_time < execution.steps[j].start_time

----------------------------------------------------------------------------
(* C10 *)

\* C10: can_execute_step is true exactly when depends_on is empty or every name
\* in it resolves to a step of the execution whose status is completed; a name
\* that resolves to no step, and a dependency that is pending, running, failed
\* or skipped, each make the step not ready.
C10_ReadyIffDependenciesCompleted ==
    \A i \in StepIds :
        LET step == execution.steps[i]
            ready == can_execute_step(step, execution)
        IN  /\ ready <=> Ready(i)
            /\ (\E d \in step.depends_on : \A j \in StepIds : execution.steps[j].step # d)
                  => ~ready
            /\ (\E d \in step.depends_on : \E j \in StepIds :
                    /\ ResolvesTo(d, j)
                    /\ execution.steps[j].status \in {"pending", "running", "failed", "skipped"})
                  => ~ready

\* a pending step depending on a and b can execute, both having completed
C10_Witness ==
    \E i \in StepIds :
        /\ execution.steps[i].depends_on = {"a", "b"}
        /\ execution.steps[i].status = "pending"
        /\ can_execute_step(execution.steps[i], execution)
        /\ \A j \in DependsOn(i) : execution.steps[j].status = "completed"

----------------------------------------------------------------------------
(* C11 *)

\* C11: for a workflow id of the catalog generate_execution_plan returns an
\* execution with status pending, both counters 0, total_steps the number of
\* step specs, the steps in declaration order, each pending with start_time,
\* end_time, result and error null, depends_on empty when the spec omits it
\* and timeout 600 when the spec omits it.
C11_PlanIsFreshAndDefaulted ==
    pc = "planned" =>
        LET specs == workflows[requested].steps
        IN  /\ execution.workflow_id = requested
            /\ execution.status = "pending"
            /\ execution.completed_steps = 0
            /\ execution.failed_steps = 0
            /\ execution.start_time = NoTime
            /\ execution.end_time = NoTime
            /\ execution.total_steps = Len(specs)
            /\ Len(execution.steps) = Len(specs)
            /\ \A i \in 1..Len(specs) :
                  LET step == execution.steps[i]
                  IN  /\ step.step = specs[i].step
                      /\ step.status = "pending"
                      /\ step.start_time = NoTime
                      /\ step.end_time = NoTime
                      /\ step.result = None
                      /\ step.error = None
                      /\ step.depends_on =
                            IF "depends_on" \in DOMAIN specs[i] THEN specs[i].depends_on ELSE {}
                      /\ step.timeout =
                            IF "timeout" \in DOMAIN specs[i] THEN specs[i].timeout ELSE 600

\* a plan of three steps: one spec omits both optional keys, one carries both,
\* one carries only depends_on
C11_Witness ==
    /\ pc = "planned"
    /\ Len(workflows[requested].steps) = 3
    /\ DOMAIN workflows[requested].steps[1] = {"step"}
    /\ DOMAIN workflows[requested].steps[2] = {"step", "depends_on", "timeout"}
    /\ DOMAIN workflows[requested].steps[3] = {"step", "depends_on"}
    /\ execution.steps[1].timeout = 600
    /\ execution.steps[2].timeout = 30

----------------------------------------------------------------------------
(* C12 *)

\* the declarative part of a step: what the plan builder copies from the spec
Declared(step) == [step |-> step.step, timeout |-> step.timeout, depends_on |-> step.depends_on]

----------------------------------------------------------------------------
(* C13 *)

\* C13: a call for a workflow id ends in the not-found error exactly when the
\* id is absent from the catalog; the error comes before any execution exists,
\* is marked running or has a step dispatched, and the step that raises it
\* changes neither the catalog nor any other state of the orchestrator.
C13_UnknownWorkflowRaisesBeforeAnything ==
    /\ [](requested # "" => (pc = "raised" <=> requested \notin DOMAIN workflows))
    /\ [](pc = "raised" =>
            /\ execution = NoExecution
            /\ second_plan = NoExecution
            /\ dispatched = <<>>
            /\ now = 1)
    /\ [][pc' = "raised" =>
            /\ workflows' = workflows
            /\ execution' = execution
            /\ second_plan' = second_plan
            /\ dispatched' = dispatched
            /\ now' = now]_vars

\* execute_workflow was called for an id the three-step catalog does not hold
C13_Witness ==
    /\ pc = "raised"
    /\ requested = "missing"
    /\ Len(workflows["wf"].steps) = 3

----------------------------------------------------------------------------
(* C14 *)

Finishes(i, status) ==
    /\ execution.steps[i].status = "running"
    /\ execution'.steps[i].status = status

\* C14: no step is dispatched twice in an execution; the return of a dispatch
\* adds one to completed_steps when the step completed and one to failed_steps
\* when it failed, leaving the other counter alone, and nothing else changes a
\* counter; so between dispatches completed_steps is the number of completed
\* steps and failed_steps the number of failed steps.
C14_CountersCountEachStepOnce ==
    /\ [](\A k, l \in 1..Len(dispatched) : dispatched[k] = dispatched[l] => k = l)
    /\ [][\/ /\ \E i \in StepIds : Finishes(i, "completed")
             /\ execution'.completed_steps = execution.completed_steps + 1
             /\ execution'.failed_steps = execution.failed_steps
          \/ /\ \E i \in StepIds : Finishes(i, "failed")
             /\ execution'.failed_steps = execution.failed_steps + 1
             /\ execution'.completed_steps = execution.completed_steps
          \/ /\ \A i \in StepIds : execution.steps[i].status # "running"
             /\ execution'.completed_steps = execution.completed_steps
             /\ execution'.failed_steps = execution.failed_steps]_vars
    /\ [](pc # "executing" =>
            /\ execution.completed_steps = Cardinality(WithStatus("completed"))
            /\ execution.failed_steps = Cardinality(WithStatus("failed")))

\* three steps were dispatched, two completed and one failed, and the loop is
\* about to look for the next step
C14_Witness ==
    /\ pc = "loop"
    /\ Len(dispatched) = 3
    /\ execution.completed_steps = 2
    /\ execution.failed_steps = 1

----------------------------------------------------------------------------
(* C15 *)

\* step i waits for step j only: it is pending, cannot execute, and each of
\* its dependencies resolves to j or to a completed step
WaitsOnlyFor(i, j) ==
    /\ execution.steps[i].status = "pending"
    /\ ~can_execute_step(execution.steps[i], execution)
    /\ \A d \in execution.steps[i].depends_on :
          \E k \in StepIds : ResolvesTo(d, k) /\ (k = j \/ execution.steps[k].status = "completed")

\* C15: when a step becomes completed, every pending step that was waiting for
\* it only can execute in the resulting state; and a pending step that can
\* execute still can after any step of the scheduler that leaves it pending.
C15_ReadinessIsMonotonic ==
    /\ [][\A j \in StepIds :
             (execution.steps[j].status # "completed"
                 /\ execution'.steps[j].status = "completed")
             => \A i \in StepIds :
                   WaitsOnlyFor(i, j) => can_execute_step(execution'.steps[i], execution')]_vars
    /\ [][\A i \in StepIds :
             (/\ execution.steps[i].status = "pending"
              /\ can_execute_step(execution.steps[i], execution)
              /\ execution'.steps[i].status = "pending")
             => can_execute_step(execution'.steps[i], execution')]_vars

\* at a tick of the loop a pending step declared before its dependency can
\* execute, the dependency having completed since
C15_Witness ==
    /\ pc = "loop"
    /\ \E i, j \in StepIds :
          /\ i < j
          /\ j \in DependsOn(i)
          /\ execution.steps[j].status = "completed"
          /\ execution.steps[i].status = "pending"
          /\ can_execute_step(execution.steps[i], execution)

----------------------------------------------------------------------------
(* C16 *)

\* the pending steps that are ready
ReadySteps == {i \in Pending : Ready(i)}

\* the executor outcomes, one for each step, that agree with what the steps
\* dispatched in this execution returned
Outcomes ==
    {ok \in [StepIds -> BOOLEAN] :
        \A i \in StepIds :
            /\ execution.steps[i].status = "completed" => ok[i]
            /\ execution.steps[i].status = "failed" => ~ok[i]}

\* C16: the step the interactive loop dispatches at a tick is the first step in
\* declaration order that is pending and ready, and a tick with such a step
\* dispatches it; so the order of dispatch and the returned execution are the
\* function of the step list and the executor outcomes that execute_workflow
\* computes.
C16_FirstReadyIsDispatched ==
    /\ [][\A i \in StepIds :
             (interactive /\ execution.steps[i].status = "pending"
                 /\ execution'.steps[i].status = "running")
             => (i \in ReadySteps /\ \A k \in ReadySteps : i <= k)]_vars
    /\ [][(pc = "loop" /\ ReadySteps # {})
             => \E i \in ReadySteps : execution'.steps[i].status = "running"]_vars
    /\ []((Returned /\ interactive) =>
             \A ok \in Outcomes :
                 LET run == execute_workflow(workflows, requested, TRUE, ok)
                 IN  run.execution = execution /\ run.dispatched = dispatched)

\* the loop dispatched the third step first, then the first, then the second
C16_Witness ==
    /\ Returned /\ interactive
    /\ dispatched = <<3, 1, 2>>

----------------------------------------------------------------------------
(* C17 *)

WasDispatched(i) == \E k \in 1..Len(dispatched) : dispatched[k] = i

\* C17: the batch pass visits the steps once, in declaration order: its
\* position never moves back, the step visited is dispatched if it is ready at
\* that moment and passed over untouched otherwise, the steps are dispatched in
\* increasing declaration order, and a step passed over is never dispatched
\* later; so a step declared before one of its dependencies is still pending
\* at return, even when that dependency completed later in the pass.
C17_BatchVisitsEachStepOnce ==
    /\ [][~interactive' =>
             /\ idx' \in {idx, idx + 1}
             /\ (pc = "batch" /\ idx <= Len(execution.steps)) =>
                   IF Ready(idx)
                   THEN /\ execution'.steps[idx].status = "running"
                        /\ dispatched' = Append(dispatched, idx)
                   ELSE /\ idx' = idx + 1
                        /\ execution' = execution
                        /\ dispatched' = dispatched]_vars
    /\ [](~interactive =>
             /\ \A k, l \in 1..Len(dispatched) : k < l => dispatched[k] < dispatched[l]
             /\ \A k \in 1..Len(dispatched) : dispatched[k] <= idx
             /\ \A i \in StepIds : (i < idx /\ ~WasDispatched(i)) => Untouched(i))
    /\ []((Returned /\ ~interactive) =>
             \A i \in StepIds : (\E j \in DependsOn(i) : i <= j) => Untouched(i))

\* a batch pass returned with a step left pending whose only dependency,
\* declared after it, completed
C17_Witness ==
    /\ Returned /\ ~interactive
    /\ \E i, j \in StepIds :
          /\ i < j
          /\ DependsOn(i) = {j}
          /\ execution.steps[j].status = "completed"
          /\ Untouched(i)

----------------------------------------------------------------------------
(* C18 *)

\* C18: execute_workflow(interactive=True) returns for every workflow, cyclic,
\* dangling, with duplicate names or empty: a tick of the loop either leaves
\* the loop or sets one pending step running, a running step ends completed or
\* failed before the next tick, so there are never more dispatches than
\* total_steps, and a workflow without steps returns without any dispatch.
C18_InteractiveLoopTerminates ==
    /\ (pc = "planned") ~> Returned
    /\ [][pc = "loop" =>
             \/ pc' = "complete" /\ execution'.steps = execution.steps
             \/ /\ pc' = "executing"
                /\ \E i \in Pending :
                      /\ execution'.steps[i].status = "running"
                      /\ \A k \in StepIds \ {i} : execution'.steps[k] = execution.steps[k]]_vars
    /\ [][pc = "executing" =>
             /\ pc' = "loop"
             /\ execution'.steps[next_step].status \in {"completed", "failed"}
             /\ \A k \in StepIds \ {next_step} : execution'.steps[k] = execution.steps[k]]_vars
    /\ [](Len(dispatched) <= execution.total_steps)
    /\ []((Returned /\ execution.total_steps = 0) => dispatched = <<>>)

\* the loop returned from a workflow of three steps with a dependency cycle
\* and a dangling name after dispatching one step
C18_Witness ==
    /\ Returned /\ interactive
    /\ execution.total_steps = 3
    /\ HasCycle /\ HasDangling
    /\ Len(dispatched) = 1

----------------------------------------------------------------------------
(* C19 *)

\* every dependency of every step is the name of a step declared earlier
Topological ==
    \A i \in StepIds : \A d \in execution.steps[i].depends_on :
        \E j \in 1..(i - 1) : execution.steps[j].step = d

\* some step is declared before a step one of its dependencies resolves to
DeclaredBeforeDependency == \E i \in StepIds : \E j \in DependsOn(i) : i < j

\* what a run of execute_workflow leaves for its caller to observe
Observed(exec, order) ==
    [dispatched |-> order,
     statuses |-> [i \in 1..Len(exec.steps) |-> exec.steps[i].status],
     completed_steps |-> exec.completed_steps,
     failed_steps |-> exec.failed_steps,
     status |-> exec.status]

\* the run of the same workflow in the other mode, with executor outcomes ok
OtherMode(ok) ==
    LET run == execute_workflow(workflows, requested, ~interactive, ok)
    IN  Observed(run.execution, run.dispatched)

ModesDifferOutOfOrder ==
    /\ Returned /\ ~interactive /\ DeclaredBeforeDependency
    /\ \E ok \in Outcomes : OtherMode(ok) # Observed(execution, dispatched)

----------------------------------------------------------------------------
(* C20 *)

\* C20: when execute_workflow(interactive=False) returns, the execution is
\* failed exactly when failed_steps > 0, which is exactly when a step the pass
\* dispatched ended failed, and it is completed otherwise, whatever the number
\* of steps the pass left pending.
C20_BatchStatusFollowsFailedSteps ==
    (Returned /\ ~interactive) =>
        /\ execution.status = "failed" <=> execution.failed_steps > 0
        /\ execution.failed_steps > 0 <=>
              \E k \in 1..Len(dispatched) : execution.steps[dispatched[k]].status = "failed"
        /\ execution.status # "failed" => execution.status = "completed"

\* the batch pass dispatched a step, left another pending, and returned a
\* completed execution
C20_Witness ==
    /\ Returned /\ ~interactive
    /\ execution.status = "completed"
    /\ dispatched # <<>>
    /\ Pending # {}

====
